---- MODULE Spec2Model ----
\* Model of src/image_matcher.py: main() and find_image_on_screen().
\* One behaviour is one invocation, either of the command line program (main)
\* or of find_image_on_screen by a library caller. pyautogui and the file
\* system are the environment; what they return or raise is drawn from the
\* outcomes their contract allows.
EXTENDS Integers, Sequences, FiniteSets, TLC

\* ---------------------------------------------------------------- bounds

\* Largest left/top coordinate of a location the search may return.
MaxCoord == 1

\* Largest width/height of a location the search may return.
MaxSize == 3

\* ---------------------------------------------------------------- text
\* Python strings are sequences of one-character strings, so that the
\* substring test of line 41 and float() of line 92 are computed, not assumed.

\* "confidence"
NeedleConfidence ==
    << "c", "o", "n", "f", "i", "d", "e", "n", "c", "e" >>

\* "OpenCV"
NeedleOpenCV ==
    << "O", "p", "e", "n", "C", "V" >>

\* "a.png"
PathPlain ==
    << "a", ".", "p", "n", "g" >>

\* "OpenCV.png"
PathOpenCV ==
    << "O", "p", "e", "n", "C", "V", ".", "p", "n", "g" >>

\* "image_matcher.py"  (sys.argv[0]; one token, its text is never inspected)
ProgName ==
    << "image_matcher.py" >>

\* "0.5"
ArgHalf ==
    << "0", ".", "5" >>

\* "0.8"
ArgEighty ==
    << "0", ".", "8" >>

\* "1"
ArgOne ==
    << "1" >>

\* "abc"
ArgBad ==
    << "a", "b", "c" >>

\* "needs OpenCV": pyscreeze's NotImplementedError text, shortened
\* ("The confidence keyword argument is only available if OpenCV is installed.")
MsgNeedsOpenCV ==
    << "n", "e", "e", "d", "s", " ", "O", "p", "e", "n", "C", "V" >>

\* "kwarg 'confidence'": TypeError of a locate function without the keyword,
\* shortened ("... got an unexpected keyword argument 'confidence'")
MsgKwargConfidence ==
    << "k", "w", "a", "r", "g", " ", "'", "c", "o", "n", "f", "i", "d", "e", "n", "c", "e", "'" >>

\* "read " : prefix of the image-decode error, which goes on with the path
MsgRead ==
    << "r", "e", "a", "d", " " >>

\* "grab failed": screen capture refused
MsgGrabFailed ==
    << "g", "r", "a", "b", " ", "f", "a", "i", "l", "e", "d" >>

\* The Japanese prefix of line 28 ("画像ファイルが見つかりません: "), one token:
\* it holds no ASCII letter, so no needle can match inside it.
MsgTemplateMissingPrefix ==
    << "<gazou-file-ga-mitsukarimasen>: " >>

\* Python's `needle in hay` on strings (line 41): needle is a contiguous
\* substring of hay.
Contains(needle, hay) ==
    \E i \in 1..(Len(hay) - Len(needle) + 1) :
        SubSeq(hay, i, i + Len(needle) - 1) = needle

\* ---------------------------------------------------------------- numbers
\* A Python number is tagged with its type; a float holds hundredths.

PyFloat(h) ==
    [t |-> "float", v |-> h]

PyInt(n) ==
    [t |-> "int", v |-> n]

\* float(x) for a number x (line 55).
Float(c) ==
    IF c.t = "int" THEN PyFloat(c.v * 100) ELSE c

Digits ==
    {"0", "1", "2", "3", "4", "5", "6", "7", "8", "9"}

DigitVal(ch) ==
    CASE ch = "0" -> 0 [] ch = "1" -> 1 [] ch = "2" -> 2 [] ch = "3" -> 3
      [] ch = "4" -> 4 [] ch = "5" -> 5 [] ch = "6" -> 6 [] ch = "7" -> 7
      [] ch = "8" -> 8 [] ch = "9" -> 9

RECURSIVE NatVal(_)
NatVal(ds) ==
    IF ds = <<>> THEN 0
    ELSE 10 * NatVal(SubSeq(ds, 1, Len(ds) - 1)) + DigitVal(ds[Len(ds)])

\* float(s) for a command line string s (line 92), on plain decimals
\* digits[.digits]: [ok |-> TRUE, val |-> the float] or [ok |-> FALSE]
\* (ValueError). Two decimals are kept.
ParseFloat(s) ==
    LET dots == {i \in 1..Len(s) : s[i] = "."}
        dot == IF dots = {} THEN Len(s) + 1 ELSE CHOOSE i \in dots : TRUE
        ip == SubSeq(s, 1, dot - 1)
        fp == SubSeq(s, dot + 1, Len(s))
        allDigits == \A i \in 1..Len(s) : i = dot \/ s[i] \in Digits
        f1 == IF Len(fp) >= 1 THEN DigitVal(fp[1]) ELSE 0
        f2 == IF Len(fp) >= 2 THEN DigitVal(fp[2]) ELSE 0
    IN  IF Cardinality(dots) <= 1 /\ allDigits /\ Len(ip) + Len(fp) >= 1
        THEN [ok |-> TRUE, val |-> PyFloat(100 * NatVal(ip) + 10 * f1 + f2)]
        ELSE [ok |-> FALSE]

\* The default of the confidence argument: 0.8, in hundredths.
DefaultConfidence == 80

\* ---------------------------------------------------------------- exceptions
\* An exception is [cls, kind, msg]: its Python class, what really happened
\* (the environment's ground truth, which the code cannot read) and str(e).

NoExc ==
    [cls |-> "None", kind |-> "none", msg |-> <<>>]

\* The direct base class of each class used here.
Parent(cls) ==
    CASE cls = "Exception" -> "BaseException"
      [] cls = "TypeError" -> "Exception"
      [] cls = "ValueError" -> "Exception"
      [] cls = "OSError" -> "Exception"
      [] cls = "RuntimeError" -> "Exception"
      [] cls = "NotImplementedError" -> "RuntimeError"
      [] cls = "ImageNotFoundException" -> "Exception"
      [] OTHER -> "object"

RECURSIVE IsSubclass(_, _)
IsSubclass(cls, base) ==
    IF cls = base THEN TRUE
    ELSE IF cls \in {"object", "None"} THEN FALSE
    ELSE IsSubclass(Parent(cls), base)

\* str(e)
Str(e) ==
    e.msg

\* `except (TypeError, Exception) as e` (line 39)
InnerCatches(e) ==
    IsSubclass(e.cls, "TypeError") \/ IsSubclass(e.cls, "Exception")

\* A handler that catches TypeError alone.
OuterCatches_TypeErrorOnly(e) ==
    IsSubclass(e.cls, "TypeError")

\* `except Exception as e` (line 75)
OuterCatches(e) ==
    IsSubclass(e.cls, "Exception")

\* `"confidence" in str(e) or "OpenCV" in str(e)` (line 41)
LooksLikeMissingOpenCV(e) ==
    Contains(NeedleConfidence, Str(e)) \/ Contains(NeedleOpenCV, Str(e))

\* ---------------------------------------------------------------- state

VARIABLES
    entry,              \* "main": the program was run; "call": a caller called find_image_on_screen
    argv,               \* sys.argv
    files,              \* the paths that exist on disk
    opencv,             \* TRUE iff the similarity backend (OpenCV) is installed
    similarity,         \* maximal similarity of the template over the screen, hundredths
    pc,                 \* position in the code
    target_image_path,  \* argument of find_image_on_screen
    confidence,         \* argument of find_image_on_screen
    location,           \* local `location`
    exc,                \* the exception in flight, NoExc when none
    result,             \* the record find_image_on_screen returned
    output,             \* what was written, in order: [stream, kind, ...]
    calls,              \* the pyautogui.locateOnScreen calls made, in order
    exit_code           \* exit status of the process, -1 while running

vars ==
    << entry, argv, files, opencv, similarity, pc, target_image_path, confidence,
       location, exc, result, output, calls, exit_code >>

Paths ==
    {PathPlain, PathOpenCV}

ConfidenceArgs ==
    {ArgHalf, ArgEighty, ArgOne, ArgBad}

Similarities ==
    {0, 50, 80, 100}

\* A region of odd width and odd height, (10, 20, 31, 41).
ExampleBox ==
    [left |-> 10, top |-> 20, width |-> 31, height |-> 41]

\* The locations a search may return.
Boxes ==
    [left : 0..MaxCoord, top : 0..MaxCoord, width : 1..MaxSize, height : 1..MaxSize]
        \cup {ExampleBox}

Unset ==
    [t |-> "unset", v |-> 0]

NoResult ==
    [unset |-> TRUE]

NoneLocation ==
    [kind |-> "none"]

\* ---------------------------------------------------------------- output

\* A narration without file=sys.stderr.
Narrate_ToStdout(out, kind) ==
    Append(out, [stream |-> "stdout", kind |-> kind])

\* print(..., file=sys.stderr)
Narrate(out, kind) ==
    Append(out, [stream |-> "stderr", kind |-> kind])

\* print(json.dumps(result, ...)) on standard output (line 98)
PrintJson(out, r) ==
    Append(out, [stream |-> "stdout", kind |-> "json", body |-> r])

\* ---------------------------------------------------------------- records

\* A missing template reported as a search that found nothing.
MissingTemplateRecord_NoError(path) ==
    [found |-> FALSE, x |-> 0, y |-> 0, confidence |-> PyFloat(0)]

\* lines 26-32
MissingTemplateRecord(path) ==
    [found |-> FALSE, error |-> MsgTemplateMissingPrefix \o path,
     x |-> 0, y |-> 0, confidence |-> PyFloat(0)]

\* A center that rounds the half up.
Center_RoundUp(box) ==
    [x |-> box.left + ((box.width + 1) \div 2), y |-> box.top + ((box.height + 1) \div 2)]

\* pyautogui.center(location) (line 49): left + int(width / 2), top + int(height / 2);
\* int() of the true quotient of non-negative integers truncates.
Center(box) ==
    [x |-> box.left + (box.width \div 2), y |-> box.top + (box.height \div 2)]

\* A Found record that reports full confidence whatever the threshold.
FoundRecord_ConfidenceOne(box, conf) ==
    [found |-> TRUE, x |-> Center(box).x, y |-> Center(box).y,
     confidence |-> PyFloat(100),
     region |-> [left |-> box.left, top |-> box.top,
                 width |-> box.width, height |-> box.height]]

\* lines 49-62
FoundRecord(box, conf) ==
    [found |-> TRUE, x |-> Center(box).x, y |-> Center(box).y,
     confidence |-> Float(conf),
     region |-> [left |-> box.left, top |-> box.top,
                 width |-> box.width, height |-> box.height]]

\* lines 68-73
NotFoundRecord ==
    [found |-> FALSE, x |-> 0, y |-> 0, confidence |-> PyFloat(0)]

\* An error record that keeps a region.
FailedRecord_WithRegion(e) ==
    [found |-> FALSE, error |-> Str(e), x |-> 0, y |-> 0, confidence |-> PyFloat(0),
     region |-> [left |-> 0, top |-> 0, width |-> 0, height |-> 0]]

\* lines 77-83
FailedRecord(e) ==
    [found |-> FALSE, error |-> Str(e), x |-> 0, y |-> 0, confidence |-> PyFloat(0)]

\* ---------------------------------------------------------------- environment

CaptureFailure ==
    [cls |-> "OSError", kind |-> "capture", msg |-> MsgGrabFailed]

DataError(path) ==
    [cls |-> "OSError", kind |-> "data", msg |-> MsgRead \o path]

\* What pyautogui raises when OpenCV is missing and confidence= is passed.
CapabilityErrors ==
    {[cls |-> "NotImplementedError", kind |-> "capability", msg |-> MsgNeedsOpenCV],
     [cls |-> "TypeError", kind |-> "capability", msg |-> MsgKwargConfidence]}

\* What a search that matched nothing raises in the pyautogui versions that
\* raise instead of returning None: pyautogui's ImageNotFoundException, which
\* carries no text.
NotFoundErrors ==
    {[cls |-> "ImageNotFoundException", kind |-> "notfound", msg |-> <<>>]}

\* The outcomes of pyautogui.locateOnScreen(path, confidence=conf) (line 38,
\* withConfidence) and of pyautogui.locateOnScreen(path) (line 43): a location,
\* None, or an exception. The screen is captured first; without OpenCV
\* confidence= is refused before the template is read. Without confidence= the
\* match must be exact (similarity 1.0).
LocateOutcomes(path, withConfidence, conf) ==
    LET threshold == IF withConfidence THEN Float(conf).v ELSE 100
        raised(es) == {[kind |-> "raise", exc |-> e] : e \in es}
    IN  raised({CaptureFailure})
        \cup (IF withConfidence /\ ~opencv
              THEN raised(CapabilityErrors)
              ELSE raised({DataError(path)})
                   \cup (IF similarity >= threshold
                         THEN {[kind |-> "box", box |-> b] : b \in Boxes}
                         ELSE {NoneLocation} \cup raised(NotFoundErrors)))

\* ---------------------------------------------------------------- Init

Init ==
    /\ entry \in {"main", "call"}
    /\ files \in SUBSET Paths
    /\ opencv \in BOOLEAN
    /\ similarity \in Similarities
    /\ \/ /\ entry = "main"
          /\ argv \in {<<ProgName>>}
                        \cup {<<ProgName, p>> : p \in Paths}
                        \cup {<<ProgName, p, c>> : p \in Paths, c \in ConfidenceArgs}
          /\ target_image_path = <<>>
          /\ confidence = Unset
          /\ pc = "main"
       \/ /\ entry = "call"
          /\ argv = <<>>
          /\ target_image_path \in Paths
          /\ confidence \in {PyFloat(DefaultConfidence), PyFloat(50), PyInt(1), PyInt(0)}
          /\ pc = "exists"
    /\ location = NoneLocation
    /\ exc = NoExc
    /\ result = NoResult
    /\ output = <<>>
    /\ calls = <<>>
    /\ exit_code = -1

\* ---------------------------------------------------------------- main()

\* Where control goes when find_image_on_screen returns: back into main
\* (line 95 to line 98), or to the library caller.
AfterReturn ==
    IF entry = "main" THEN "print" ELSE "returned"

\* lines 87-89: too few arguments, usage on stderr and sys.exit(1).
MainUsage ==
    /\ pc = "main"
    /\ Len(argv) < 2
    /\ output' = Narrate(output, "usage")
    /\ exit_code' = 1
    /\ pc' = "exited"
    /\ UNCHANGED << entry, argv, files, opencv, similarity, target_image_path,
                    confidence, location, exc, result, calls >>

\* lines 91-95: read the arguments and call find_image_on_screen. float() of a
\* string that is no number raises ValueError, which nothing catches: the
\* interpreter writes the traceback to stderr and exits with status 1.
MainArgs ==
    /\ pc = "main"
    /\ Len(argv) >= 2
    /\ LET parsed == IF Len(argv) > 2 THEN ParseFloat(argv[3])
                     ELSE [ok |-> TRUE, val |-> PyFloat(DefaultConfidence)]
       IN  IF parsed.ok
           THEN /\ target_image_path' = argv[2]
                /\ confidence' = parsed.val
                /\ pc' = "exists"
                /\ UNCHANGED << output, exit_code >>
           ELSE /\ output' = Narrate(output, "traceback")
                /\ exit_code' = 1
                /\ pc' = "crashed"
                /\ UNCHANGED << target_image_path, confidence >>
    /\ UNCHANGED << entry, argv, files, opencv, similarity, location, exc, result, calls >>

\* line 98: the result as JSON on standard output; main returns, status 0.
MainPrint ==
    /\ pc = "print"
    /\ output' = PrintJson(output, result)
    /\ exit_code' = 0
    /\ pc' = "done"
    /\ UNCHANGED << entry, argv, files, opencv, similarity, target_image_path,
                    confidence, location, exc, result, calls >>

\* ---------------------------------------------------------------- find_image_on_screen()

\* lines 25-34: a template that does not exist is reported at once; otherwise
\* the start of the search is narrated.
CheckExists ==
    /\ pc = "exists"
    /\ IF target_image_path \notin files
       THEN /\ result' = MissingTemplateRecord(target_image_path)
            /\ pc' = AfterReturn
            /\ UNCHANGED output
       ELSE /\ output' = Narrate(output, "start")
            /\ pc' = "primary"
            /\ UNCHANGED result
    /\ UNCHANGED << entry, argv, files, opencv, similarity, target_image_path,
                    confidence, location, exc, calls, exit_code >>

\* line 38: pyautogui.locateOnScreen(target_image_path, confidence=confidence)
PrimarySearch ==
    /\ pc = "primary"
    /\ \E o \in LocateOutcomes(target_image_path, TRUE, confidence) :
          /\ calls' = Append(calls, [fn |-> "primary", outcome |-> o.kind,
                                     why |-> IF o.kind = "raise" THEN o.exc.kind ELSE "none"])
          /\ IF o.kind = "raise"
             THEN /\ exc' = o.exc
                  /\ pc' = IF InnerCatches(o.exc) THEN "inner"
                           ELSE IF OuterCatches(o.exc) THEN "outer" ELSE "escaped"
                  /\ UNCHANGED location
             ELSE /\ location' = o
                  /\ pc' = "build"
                  /\ UNCHANGED exc
    /\ UNCHANGED << entry, argv, files, opencv, similarity, target_image_path,
                    confidence, result, output, exit_code >>

\* A handler that repeats the search with confidence= instead of dropping it.
InnerHandler_RetryPrimary ==
    /\ pc = "inner"
    /\ IF LooksLikeMissingOpenCV(exc)
       THEN /\ output' = Narrate(output, "degraded")
            /\ exc' = NoExc
            /\ pc' = "primary"
       ELSE /\ pc' = IF OuterCatches(exc) THEN "outer" ELSE "escaped"
            /\ UNCHANGED << output, exc >>
    /\ UNCHANGED << entry, argv, files, opencv, similarity, target_image_path,
                    confidence, location, result, calls, exit_code >>

\* lines 39-45: the handler of the primary search. An exception whose text
\* holds "confidence" or "OpenCV" is swallowed, the notice is narrated and the
\* search without confidence= comes next; any other is raised again.
InnerHandler ==
    /\ pc = "inner"
    /\ IF LooksLikeMissingOpenCV(exc)
       THEN /\ output' = Narrate(output, "degraded")
            /\ exc' = NoExc
            /\ pc' = "fallback"
       ELSE /\ pc' = IF OuterCatches(exc) THEN "outer" ELSE "escaped"
            /\ UNCHANGED << output, exc >>
    /\ UNCHANGED << entry, argv, files, opencv, similarity, target_image_path,
                    confidence, location, result, calls, exit_code >>

\* line 43: pyautogui.locateOnScreen(target_image_path), inside the handler:
\* what it raises goes to the outer handler.
FallbackSearch ==
    /\ pc = "fallback"
    /\ \E o \in LocateOutcomes(target_image_path, FALSE, confidence) :
          /\ calls' = Append(calls, [fn |-> "fallback", outcome |-> o.kind,
                                     why |-> IF o.kind = "raise" THEN o.exc.kind ELSE "none"])
          /\ IF o.kind = "raise"
             THEN /\ exc' = o.exc
                  /\ pc' = IF OuterCatches(o.exc) THEN "outer" ELSE "escaped"
                  /\ UNCHANGED location
             ELSE /\ location' = o
                  /\ pc' = "build"
                  /\ UNCHANGED exc
    /\ UNCHANGED << entry, argv, files, opencv, similarity, target_image_path,
                    confidence, result, output, exit_code >>

\* lines 47-73: the record of a location, or of None.
BuildResult ==
    /\ pc = "build"
    /\ IF location.kind = "box"
       THEN /\ result' = FoundRecord(location.box, confidence)
            /\ output' = Narrate(output, "found")
       ELSE /\ result' = NotFoundRecord
            /\ output' = Narrate(output, "notfound")
    /\ pc' = AfterReturn
    /\ UNCHANGED << entry, argv, files, opencv, similarity, target_image_path,
                    confidence, location, exc, calls, exit_code >>

\* lines 75-83: the outer handler narrates the error and returns its record.
OuterHandler ==
    /\ pc = "outer"
    /\ output' = Narrate(output, "error")
    /\ result' = FailedRecord(exc)
    /\ pc' = AfterReturn
    /\ UNCHANGED << entry, argv, files, opencv, similarity, target_image_path,
                    confidence, location, exc, calls, exit_code >>

Next ==
    \/ MainUsage
    \/ MainArgs
    \/ CheckExists
    \/ PrimarySearch
    \/ InnerHandler
    \/ FallbackSearch
    \/ BuildResult
    \/ OuterHandler
    \/ MainPrint

Spec ==
    Init /\ [][Next]_vars

\* ---------------------------------------------------------------- properties

\* find_image_on_screen has returned its record.
Returned ==
    pc \in {"print", "done", "returned"}

\* The fallback search (line 43) has been called.
FallbackRan ==
    \E i \in DOMAIN calls : calls[i].fn = "fallback"

\* The three record shapes.
IsFound(r) ==
    /\ DOMAIN r = {"found", "x", "y", "confidence", "region"}
    /\ r.found = TRUE

IsNotFound(r) ==
    /\ DOMAIN r = {"found", "x", "y", "confidence"}
    /\ r.found = FALSE /\ r.x = 0 /\ r.y = 0 /\ r.confidence = PyFloat(0)

IsFailed(r) ==
    /\ DOMAIN r = {"found", "x", "y", "confidence", "error"}
    /\ r.found = FALSE /\ r.x = 0 /\ r.y = 0 /\ r.confidence = PyFloat(0)

HasNarration(kind) ==
    \E i \in DOMAIN output : output[i] = [stream |-> "stderr", kind |-> kind]

JsonCount ==
    Cardinality({i \in DOMAIN output : output[i].stream = "stdout" /\ output[i].kind = "json"})

\* The caller's threshold as a number of hundredths.
ThresholdHundredths ==
    IF confidence.t = "int" THEN 100 * confidence.v ELSE confidence.v

\* C1: when the template path does not exist, find_image_on_screen returns at
\* once the Failed record (error present), never the NotFound record, and no
\* search, primary or fallback, is started and no search start is narrated.
C1_MissingTemplateFails ==
    (pc \notin {"main", "exited", "crashed"} /\ target_image_path \notin files)
        => /\ calls = <<>>
           /\ pc \in {"exists", "print", "done", "returned"}
           /\ ~HasNarration("start")
           /\ Returned => (IsFailed(result) /\ ~IsNotFound(result)
                           /\ result.error = MsgTemplateMissingPrefix \o target_image_path)

C1_Witness ==
    /\ pc = "returned"
    /\ target_image_path \notin files
    /\ IsFailed(result)
    /\ calls = <<>>

\* C2: every record find_image_on_screen returns has exactly one of the three
\* shapes Found (found, region, no error), NotFound (not found, zeros, neither
\* region nor error) and Failed (not found, zeros, error, no region).
C2_RecordShapes ==
    Returned =>
        Cardinality({k \in {"Found", "NotFound", "Failed"} :
                        \/ k = "Found" /\ IsFound(result)
                        \/ k = "NotFound" /\ IsNotFound(result)
                        \/ k = "Failed" /\ IsFailed(result)}) = 1

C2_Witness ==
    /\ pc = "done"
    /\ IsFailed(result)
    /\ Len(calls) = 2
    /\ calls[2].outcome = "raise"

\* C3: no exception leaves find_image_on_screen: an exception of the primary
\* search that the inner handler raises again, and an exception of the
\* fallback search, end in the Failed record whose error is the exception's text.
C3_NoExceptionEscapes ==
    /\ pc # "escaped"
    /\ (Returned /\ exc # NoExc) => (IsFailed(result) /\ result.error = Str(exc))
    /\ (Returned /\ calls # <<>> /\ calls[Len(calls)].outcome = "raise")
         => (exc # NoExc /\ IsFailed(result))

C3_Witness ==
    /\ pc = "returned"
    /\ FallbackRan
    /\ calls[Len(calls)].outcome = "raise"
    /\ exc = CaptureFailure
    /\ IsFailed(result)
    /\ result.error = MsgGrabFailed

\* C4: the fallback search is started only when the similarity backend is
\* missing; an exception of the primary search that is no sign of a missing
\* backend (a data error, a capture failure, a not-found signal) does not
\* start it and ends in the Failed record.
C4_FallbackOnlyWithoutBackend ==
    /\ (pc = "fallback" \/ FallbackRan) => ~opencv
    /\ (calls # <<>> /\ calls[1].why \in {"data", "capture", "notfound"})
         => /\ pc # "fallback"
            /\ ~FallbackRan
            /\ Returned => IsFailed(result)

\* C5 as claimed: a Found record of the fallback path, the backend missing,
\* has confidence 1.0 whatever the threshold, and the fallback's location as region.
C5_FallbackConfidenceOne ==
    (Returned /\ FallbackRan /\ ~opencv /\ IsFound(result))
        => /\ result.confidence = PyFloat(100)
           /\ result.region = location.box

\* C5 amended: a Found record of the fallback path has the caller's threshold,
\* as a float, as its confidence, and the fallback's location as region.
C5_FallbackEchoesThreshold ==
    (Returned /\ FallbackRan /\ IsFound(result))
        => /\ result.confidence = PyFloat(ThresholdHundredths)
           /\ result.region = location.box

C5_Witness ==
    /\ pc = "done"
    /\ FallbackRan
    /\ ~opencv
    /\ IsFound(result)
    /\ confidence = PyFloat(80)
    /\ result.confidence = PyFloat(80)

\* C6: with the backend present and the primary search neither failing to
\* capture nor to read the template, the record is Found when the threshold is
\* at most the maximal similarity and NotFound when it is above: a search that
\* finds nothing is never reported as Failed.
C6_ThresholdDecides ==
    (Returned /\ opencv /\ calls # <<>> /\ calls[1].why \in {"none", "notfound"})
        => IF ThresholdHundredths <= similarity
           THEN IsFound(result)
           ELSE IsNotFound(result)

\* C7 as claimed: at most one screen-capturing search call per invocation.
C7_OneCapture ==
    Len(calls) <= 1

\* C7 amended: at most two search calls are made in an invocation, the primary
\* search first and at most once, the fallback search at most once and only
\* after the primary search raised; without the fallback there is at most one.
C7_PrimaryThenFallback ==
    /\ Len(calls) <= 2
    /\ calls # <<>> => calls[1].fn = "primary"
    /\ Len(calls) = 2 => (calls[2].fn = "fallback" /\ calls[1].outcome = "raise")
    /\ ~FallbackRan => Len(calls) <= 1

C7_Witness ==
    /\ Returned
    /\ Len(calls) = 2
    /\ calls[1].fn = "primary"
    /\ calls[2].fn = "fallback"

\* C8: main, given a template path, ends with exactly one JSON object on
\* standard output and status 0 whatever the outcome; only without a template
\* path does it end with usage on stderr, a non-zero status and no JSON.
C8_MainAlwaysPrintsJson ==
    (entry = "main" /\ pc \in {"done", "exited", "crashed"})
        => IF Len(argv) >= 2
           THEN JsonCount = 1 /\ exit_code = 0
           ELSE JsonCount = 0 /\ exit_code # 0 /\ HasNarration("usage")

\* C9: in every Found record x = left + floor(width / 2) and
\* y = top + floor(height / 2) of the record's own region, odd or even.
C9_CenterIsFloor ==
    (Returned /\ IsFound(result))
        => /\ result.x = result.region.left + (result.region.width \div 2)
           /\ result.y = result.region.top + (result.region.height \div 2)
           /\ 2 * (result.x - result.region.left) \in
                 {result.region.width, result.region.width - 1}
           /\ 2 * (result.y - result.region.top) \in
                 {result.region.height, result.region.height - 1}

C9_Witness ==
    /\ Returned
    /\ IsFound(result)
    /\ result.region = ExampleBox
    /\ result.x = 25
    /\ result.y = 40

\* C10: the degraded-mode notice is on stderr before the fallback search
\* starts; every narration is on stderr; standard output receives nothing but
\* one JSON result, and nothing is written after it.
C10_NarrationOnStderr ==
    /\ (pc = "fallback" \/ FallbackRan) => HasNarration("degraded")
    /\ \A i \in DOMAIN output :
          /\ output[i].kind # "json" => output[i].stream = "stderr"
          /\ output[i].stream = "stdout" => (output[i].kind = "json" /\ i = Len(output))
    /\ JsonCount <= 1

C10_Witness ==
    /\ pc = "done"
    /\ FallbackRan
    /\ HasNarration("degraded")
    /\ JsonCount = 1
    /\ output[Len(output)].stream = "stdout"
    /\ Len(output) >= 4

====
